---- MODULE Spec2Model ----
(***************************************************************************)
(* A model of the three analysis scripts of the Mahjong AI repository:     *)
(*   res.py    the statistics report (print-only pipeline),                *)
(*   plots.py  the paper figures (chart data series + saved files),        *)
(*   viz.py    the draw-game visualiser (draw-detail table).               *)
(* Each script is a straight-line batch program; one action models one     *)
(* section of a script, in program order.                                  *)
(*                                                                         *)
(* Numbers.  Percentages read from a table or computed by the scripts are  *)
(* fixed-point integers in tenths of a percent (52.0% is 520).             *)
(* Probabilities (p-values) are fixed-point integers with PScale units     *)
(* to 1.0.  A float division by zero on numpy scalars yields NaN.          *)
(***************************************************************************)
EXTENDS Integers, Sequences, FiniteSets, TLC

\* ------------------------------------------------------------------- state
VARIABLES
    df,                 \* the loaded results table (a sequence of rows)
    pc,                 \* the section of res.py that runs next
    err,                \* "none", or the exception that ended the run
    p_value,            \* <<>> until assigned, then <<p>>
    sig_text,           \* <<>> until assigned, then <<text>>
    win_rates,          \* the list built at lines 70-76
    clustered_52_68,    \* <<>> until assigned, then <<list>>
    below_52,
    above_68,
    max_row,            \* <<>> until assigned, then <<row>>
    overlaps_strategic,
    out                 \* the values printed so far: <<label, value>> pairs

reportVars == <<df, pc, err, p_value, sig_text, win_rates, clustered_52_68,
                below_52, above_68, max_row, overlaps_strategic, out>>

VARIABLES
    decisive,           \* n of the calls (0: the p-value is given directly)
    calls,              \* the binomtest calls made so far: [k, pvalue] records
    given_p,            \* <<>>, or <<p>>: the p-value the bucket code reads
    chosen_text         \* <<>>, or <<text>>: the sig_text chosen for given_p

statsVars == <<decisive, calls, given_p, chosen_text>>

VARIABLES
    csv_exists,             \* whether res/player_comparison_results.csv exists
    csv_rows,               \* its rows, when it exists
    chart_df,               \* the table once it is read (line 31)
    chart_pc,               \* the part of plots.py that runs next
    chart_err,              \* "none", or the exception that ended the run
    plots_dir,              \* whether ./plots exists
    p1_wins, p2_wins,       \* Figure 1: bar heights
    p1_errors, p2_errors,   \* Figure 1: error bars, in hundredths of a percent
    panel_draw_rates,       \* Figure 2, panel A (draw_rates)
    overlap_rates,          \* Figure 2, panel B
    won_before_reshuffle,   \* Figure S3: the three stacked segments
    won_after_reshuffle,
    drew_after_reshuffle,
    warnings,               \* the "Warning: No data for ..." lines printed
    saved,                  \* the figure files written
    listed                  \* the files named by the final listing

chartVars == <<csv_exists, csv_rows, chart_df, chart_pc, chart_err, plots_dir,
               p1_wins, p2_wins, p1_errors, p2_errors, panel_draw_rates,
               overlap_rates, won_before_reshuffle, won_after_reshuffle,
               drew_after_reshuffle, warnings, saved, listed>>

VARIABLES
    draws_csv,          \* the rows of pattern_overlap_details.csv
    draws_df,           \* the DataFrame main() passes to every step
    viz_pc,             \* the step of main() that runs next
    viz_err,            \* "none", or the exception that ended the run
    summary,            \* <<>>, or <<the numbers of generate_summary_stats>>
    viz_saved           \* the files written to the visualizations directory

vizVars == <<draws_csv, draws_df, viz_pc, viz_err, summary, viz_saved>>

VARIABLES
    argv,               \* sys.argv[1:]: <<>>, or <<path>>
    result_dirs,        \* the comparison_results_* directories: [name, mtime] records
    files,              \* the paths that exist as files
    csv_path,           \* <<>> until resolved, then <<path>>
    entry_pc,           \* the part of main() before load_data that runs next
    exit_status,        \* <<>>, or <<status>> once sys.exit was called
    diagnostic          \* the error lines printed: [message, names] records

entryVars == <<argv, result_dirs, files, csv_path, entry_pc, exit_status, diagnostic>>

VARIABLES
    first_run           \* <<>>, or <<what the first of two runs of a script produced>>

\* What each script leaves alone: the state of the other scripts.
otherThanReport == <<statsVars, chartVars, vizVars, entryVars, first_run>>
otherThanStats == <<reportVars, chartVars, vizVars, entryVars, first_run>>
otherThanCharts == <<reportVars, statsVars, vizVars, entryVars, first_run>>
otherThanViz == <<reportVars, statsVars, chartVars, entryVars, first_run>>
otherThanEntry == <<reportVars, statsVars, chartVars, vizVars, first_run>>

\* ------------------------------------------------------------------ bounds
\* Longest results table (number of rows of player_comparison_results.csv).
MaxRows == 2

\* ------------------------------------------------------------- arithmetic
PScale == 10 ^ 9

\* numpy's nan, the result of 0/0 on numpy scalars (a RuntimeWarning, no raise).
NaN == -1

\* (a / b) * 100 on numpy scalars, in tenths of a percent.
PctOf(a, b) == IF b = 0 THEN NaN ELSE (1000 * a) \div b

RECURSIVE SumSeq(_)
SumSeq(s) == IF s = <<>> THEN 0 ELSE Head(s) + SumSeq(Tail(s))

RECURSIVE MinSeq(_)
MinSeq(s) ==
    IF Len(s) = 1 THEN s[1]
    ELSE LET m == MinSeq(Tail(s)) IN IF s[1] <= m THEN s[1] ELSE m

RECURSIVE MaxSeq(_)
MaxSeq(s) ==
    IF Len(s) = 1 THEN s[1]
    ELSE LET m == MaxSeq(Tail(s)) IN IF s[1] >= m THEN s[1] ELSE m

RECURSIVE InsertSorted(_, _)
InsertSorted(x, s) ==
    IF s = <<>> THEN <<x>>
    ELSE IF x <= Head(s) THEN <<x>> \o s
    ELSE <<Head(s)>> \o InsertSorted(x, Tail(s))

RECURSIVE Sorted(_)
Sorted(s) == IF s = <<>> THEN <<>> ELSE InsertSorted(Head(s), Sorted(Tail(s)))

\* np.mean and np.median of a non-empty list.
Mean(s) == SumSeq(s) \div Len(s)

Median(s) ==
    LET t == Sorted(s)
        n == Len(s)
    IN  IF n % 2 = 1 THEN t[(n + 1) \div 2]
        ELSE (t[n \div 2] + t[n \div 2 + 1]) \div 2

\* ----------------------------------------------------- the results table
Strategies == {"bayesian", "greedy", "random_commit", "pure_random"}
Configs == {"neither", "p1_only", "p2_only", "both"}

\* One row of res/player_comparison_results.csv, built from the game counts of
\* one batch so that the row satisfies the table's invariants:
\*   p1_wins + p2_wins = decisive_games, decisive_games + draws = total_games.
\* w1, w2: wins of each side; d: draws; resh: games that reshuffled;
\* war: wins after a reshuffle; ovl: pattern overlap in tenths of a percent;
\* hi, st, sim, a1, a2: the draw progress-category counts.
ResultRow(t1, t2, cfg, w1, w2, d, resh, war, ovl, hi, st, sim, a1, a2) ==
    [ player1_type |-> t1, player2_type |-> t2, config_name |-> cfg,
      total_games |-> w1 + w2 + d,
      p1_wins |-> w1, p2_wins |-> w2,
      decisive_games |-> w1 + w2,
      draws |-> d,
      p1_win_rate_decisive |-> IF w1 + w2 = 0 THEN 0 ELSE (1000 * w1) \div (w1 + w2),
      p2_win_rate_decisive |-> IF w1 + w2 = 0 THEN 0 ELSE (1000 * w2) \div (w1 + w2),
      draw_pct |-> (1000 * d) \div (w1 + w2 + d),
      draw_pattern_overlap_pct |-> ovl,
      reshuffle_pct |-> (1000 * resh) \div (w1 + w2 + d),
      games_reshuffled |-> resh,
      wins_after_reshuffle |-> war,
      draw_both_high_progress |-> hi,
      draw_both_stuck |-> st,
      draw_similar_progress |-> sim,
      draw_p2_stuck_p1_ahead |-> a1,
      draw_p1_stuck_p2_ahead |-> a2 ]

\* The rows a results table is drawn from.
ReportRows ==
    { ResultRow("bayesian", "greedy", "neither", 3, 1, 4, 6, 2, 950, 1, 1, 2, 1, 1),
      ResultRow("bayesian", "greedy", "neither", 0, 0, 4, 4, 0, 950, 1, 1, 2, 1, 1),
      ResultRow("bayesian", "greedy", "neither", 6, 0, 0, 0, 0, 0, 0, 0, 0, 0, 0),
      ResultRow("bayesian", "greedy", "both", 0, 0, 5, 5, 0, 990, 0, 5, 5, 0, 0),
      ResultRow("bayesian", "greedy", "both", 13, 12, 25, 40, 15, 930, 5, 5, 10, 10, 5),
      ResultRow("bayesian", "greedy", "p1_only", 17, 8, 25, 40, 15, 930, 5, 5, 10, 10, 5),
      ResultRow("bayesian", "greedy", "p2_only", 1, 3, 4, 6, 2, 950, 1, 1, 2, 1, 1),
      ResultRow("bayesian", "bayesian", "neither", 2, 2, 6, 8, 2, 990, 1, 2, 3, 2, 1),
      ResultRow("bayesian", "bayesian", "neither", 3, 1, 0, 0, 0, 0, 0, 0, 0, 0, 0),
      ResultRow("greedy", "greedy", "neither", 1, 2, 7, 9, 2, 930, 0, 4, 4, 2, 1),
      ResultRow("greedy", "greedy", "neither", 2, 1, 1, 1, 1, 930, 0, 1, 1, 0, 0),
      ResultRow("bayesian", "random_commit", "neither", 4, 0, 6, 8, 2, 600, 0, 3, 3, 2, 1),
      ResultRow("greedy", "random_commit", "neither", 0, 0, 3, 3, 0, 500, 0, 3, 3, 0, 0),
      ResultRow("bayesian", "pure_random", "neither", 3, 0, 1, 2, 1, 300, 0, 1, 1, 0, 0),
      ResultRow("bayesian", "pure_random", "both", 1, 1, 2, 3, 1, 300, 0, 2, 2, 0, 0),
      ResultRow("bayesian", "pure_random", "p2_only", 0, 0, 2, 2, 0, 300, 0, 2, 2, 0, 0),
      ResultRow("greedy", "pure_random", "neither", 2, 0, 2, 3, 1, 250, 0, 2, 2, 0, 0),
      ResultRow("greedy", "pure_random", "both", 1, 1, 2, 3, 1, 250, 0, 2, 2, 0, 0),
      ResultRow("random_commit", "random_commit", "neither", 1, 1, 2, 3, 1, 120, 0, 2, 2, 0, 0),
      ResultRow("random_commit", "pure_random", "neither", 2, 0, 2, 3, 1, 80, 0, 2, 2, 0, 0),
      ResultRow("pure_random", "pure_random", "p1_only", 1, 0, 3, 3, 0, 50, 0, 3, 3, 0, 0) }

RECURSIVE SeqsUpTo(_, _)
SeqsUpTo(S, n) ==
    IF n = 0 THEN {<<>>}
    ELSE LET shorter == SeqsUpTo(S, n - 1)
         IN  shorter \cup {Append(s, x) : s \in shorter, x \in S}

\* df[(df['player1_type'] == t1) & (df['player2_type'] == t2)]
Pairing(table, t1, t2) ==
    LET Test(r) == r.player1_type = t1 /\ r.player2_type = t2
    IN  SelectSeq(table, Test)

\* df[df['config_name'] == 'neither']
Neither(table) ==
    LET Test(r) == r.config_name = "neither"
    IN  SelectSeq(table, Test)

\* --------------------------------------------------- scipy.stats.binomtest
\* Row n+1 of the Binomial(n, 1/2) probability table from row n:
\* P_n+1[k] = (P_n[k] + P_n[k-1]) / 2, entries indexed from k = 0 at position 1.
NextPmfRow(r) ==
    [k \in 1..(Len(r) + 1) |->
        ((IF k <= Len(r) THEN r[k] ELSE 0) + (IF k > 1 THEN r[k - 1] ELSE 0)) \div 2]
    \o <<>>

\* NextPmfRow applied n times to row r, by halving n (each row is computed
\* once, before the rows that are built from it).
RECURSIVE PmfRowsFrom(_, _)
PmfRowsFrom(r, n) ==
    IF n = 0 THEN r
    ELSE IF n = 1
    THEN LET r1 == NextPmfRow(r) IN IF Len(r1) > 0 THEN r1 ELSE <<>>
    ELSE LET half == PmfRowsFrom(r, n \div 2)
         IN  IF Len(half) > 0 THEN PmfRowsFrom(half, n - n \div 2) ELSE <<>>

\* Row n of the table: P[X = k] for k = 0..n, X ~ Binomial(n, 0.5).
PmfRow(n) == PmfRowsFrom(<<PScale>>, n)

\* r[i] + ... + r[j], by halving the range.
RECURSIVE SumRange(_, _, _)
SumRange(r, i, j) ==
    IF i > j THEN 0
    ELSE IF i = j THEN r[i]
    ELSE LET m == (i + j) \div 2 IN SumRange(r, i, m) + SumRange(r, m + 1, j)

\* binomtest validates its arguments: n must be a positive integer, 0 <= k <= n.
BinomtestRaises(k, n) == n < 1 \/ k < 0 \/ k > n

\* The opposite tail, P[X <= k].
AlternativeLess(k, n) == IF k = n THEN PScale ELSE PScale - SumRange(PmfRow(n), k + 2, n + 1)

\* stats.binomtest(k, n=n, p=0.5, alternative='greater').pvalue: P[X >= k],
\* X ~ Binomial(n, 0.5).
Binomtest(k, n) == IF k = 0 THEN PScale ELSE SumRange(PmfRow(n), k + 1, n + 1)

\* f"{p_value:.3f}": the value rounded to thousandths.
Round3(p) == (p + (PScale \div 2000)) \div (PScale \div 1000)

\* The chain with inclusive comparisons.
SigTextInclusive(p) ==
    IF p <= PScale \div 1000 THEN [text |-> "p < 0.001", value |-> 0]
    ELSE IF p <= PScale \div 100 THEN [text |-> "p < 0.01", value |-> 0]
    ELSE IF p <= PScale \div 20 THEN [text |-> "p < 0.05", value |-> 0]
    ELSE [text |-> "p = ", value |-> Round3(p)]

\* Lines 50-57: the significance text of the primary result.
SigText(p) ==
    IF p < PScale \div 1000 THEN [text |-> "p < 0.001", value |-> 0]
    ELSE IF p < PScale \div 100 THEN [text |-> "p < 0.01", value |-> 0]
    ELSE IF p < PScale \div 20 THEN [text |-> "p < 0.05", value |-> 0]
    ELSE [text |-> "p = ", value |-> Round3(p)]

\* ======================================================= res.py: the report
neither == Neither(df)
bg_neither == Pairing(neither, "bayesian", "greedy")
bb_neither == Pairing(neither, "bayesian", "bayesian")
bg_all == Pairing(df, "bayesian", "greedy")
bpr_all == Pairing(df, "bayesian", "pure_random")
gpr_all == Pairing(df, "greedy", "pure_random")

\* The pairings list of lines 226-236, in order.
pairings ==
    << <<"bayesian", "bayesian">>, <<"bayesian", "greedy">>, <<"greedy", "greedy">>,
       <<"bayesian", "random_commit">>, <<"greedy", "random_commit">>,
       <<"bayesian", "pure_random">>, <<"random_commit", "random_commit">>,
       <<"random_commit", "pure_random">>, <<"pure_random", "pure_random">> >>

strategic_pairs == SubSeq(pairings, 1, 3)
baseline_pairs == SubSeq(pairings, 7, 9)

Column(rows, field) == [i \in 1..Len(rows) |-> rows[i][field]]

\* The loop "for p1, p2 in pairs: row_data = neither[...]; if len(row_data) > 0:
\* values.append(row_data.iloc[0][field])": one value per pairing that has a row.
RECURSIVE Collect(_, _, _)
Collect(table, pairs, field) ==
    IF pairs = <<>> THEN <<>>
    ELSE LET row_data == Pairing(table, Head(pairs)[1], Head(pairs)[2])
         IN  (IF Len(row_data) > 0 THEN <<row_data[1][field]>> ELSE <<>>)
             \o Collect(table, Tail(pairs), field)

\* list.index(max(list)): the first position holding the maximum.
IndexOfMax(s) == CHOOSE i \in 1..Len(s) : s[i] = MaxSeq(s) /\ \A j \in 1..(i - 1) : s[j] # s[i]

\* The middle bucket without its two end points.
Range52To68Exclusive(s) == LET Test(wr) == 520 < wr /\ wr < 680 IN SelectSeq(s, Test)

\* Lines 86-88: the three buckets of the collected win rates.
Range52To68(s) == LET Test(wr) == 520 <= wr /\ wr <= 680 IN SelectSeq(s, Test)
Below52(s) == LET Test(wr) == wr < 520 IN SelectSeq(s, Test)
Above68(s) == LET Test(wr) == wr > 680 IN SelectSeq(s, Test)

Running(section) == pc = section /\ err = "none"

Goto(section) == pc' = section /\ err' = "none"

\* An uncaught exception ends the script where it is raised.
Raise(exception) == pc' = pc /\ err' = exception

\* A block "if len(x_neither) > 0: row = x_neither.iloc[0]; binomtest(...); print(...)":
\* the values it prints, or <<>> when the pairing has no row.
PairBlock(rows, tag) ==
    IF Len(rows) = 0 THEN <<>>
    ELSE << <<tag \o "_win_rate", rows[1].p1_win_rate_decisive>>,
            <<tag \o "_p_value", Binomtest(rows[1].p1_wins, rows[1].decisive_games)>> >>

PairBlockRaises(rows) ==
    Len(rows) > 0 /\ BinomtestRaises(rows[1].p1_wins, rows[1].decisive_games)

\* Lines 11-23: read the table, print the basic statistics.  The table has at
\* least one row, so that read_csv gives its count columns an integer dtype and
\* their sums are numpy scalars.
ReportInit ==
    /\ df \in SeqsUpTo(ReportRows, MaxRows) \ {<<>>}
    /\ pc = "s411"
    /\ err = "none"
    /\ p_value = <<>>
    /\ sig_text = <<>>
    /\ win_rates = <<>>
    /\ clustered_52_68 = <<>>
    /\ below_52 = <<>>
    /\ above_68 = <<>>
    /\ max_row = <<>>
    /\ overlaps_strategic = <<>>
    /\ out = <<>>

\* Lines 25-61: SECTION 4.1.1, the primary result.
Section411 ==
    /\ Running("s411")
    /\ IF Len(bg_neither) = 0
       THEN /\ Goto("bg_all")
            /\ UNCHANGED <<p_value, sig_text, out>>
       ELSE LET row == bg_neither[1] IN
            IF BinomtestRaises(row.p1_wins, row.decisive_games)
            THEN /\ Raise("ValueError")
                 /\ UNCHANGED <<p_value, sig_text, out>>
            ELSE LET p == Binomtest(row.p1_wins, row.decisive_games) IN
                 /\ p_value' = <<p>>
                 /\ sig_text' = <<SigText(p)>>
                 /\ out' = out \o << <<"primary_win_rate", row.p1_win_rate_decisive>>,
                                     <<"primary_p_value", p>> >>
                 /\ Goto("bg_all")
    /\ UNCHANGED <<df, win_rates, clustered_52_68, below_52, above_68, max_row,
                   overlaps_strategic>>
    /\ UNCHANGED otherThanReport

\* The win rates collected by the loop of lines 70-76.
CollectedWinRates(rows) ==
    LET Test(row) == row.decisive_games > 0
    IN  Column(SelectSeq(rows, Test), "p1_win_rate_decisive")

\* The number the paper sentence of line 95 gives for "all N configurations".
PaperConfigCount(rows) == Len(rows)

\* Lines 63-105: all bayesian vs greedy configurations.
AllBayesianVsGreedy ==
    /\ Running("bg_all")
    /\ LET wrs == CollectedWinRates(bg_all) IN
       /\ win_rates' = wrs
       /\ IF wrs # <<>>
          THEN /\ clustered_52_68' = <<Range52To68(wrs)>>
               /\ below_52' = <<Below52(wrs)>>
               /\ above_68' = <<Above68(wrs)>>
               /\ max_row' = <<bg_all[IndexOfMax(wrs)]>>
               /\ out' = out \o
                    << <<"bg_configurations", Len(bg_all)>>,
                       <<"bg_min", MinSeq(wrs)>>,
                       <<"bg_max", MaxSeq(wrs)>>,
                       <<"bg_mean", Mean(wrs)>>,
                       <<"bg_median", Median(wrs)>>,
                       <<"bg_paper_configurations", PaperConfigCount(bg_all)>>,
                       <<"bg_paper_min", MinSeq(wrs)>>,
                       <<"bg_paper_max", MaxSeq(wrs)>> >>
          ELSE /\ out' = out \o << <<"bg_configurations", Len(bg_all)>> >>
               /\ UNCHANGED <<clustered_52_68, below_52, above_68, max_row>>
    /\ Goto("s412")
    /\ UNCHANGED <<df, p_value, sig_text, overlaps_strategic>>
    /\ UNCHANGED otherThanReport

\* Line 143: the pooled win rate the report prints for bayesian vs pure_random.
PooledWinRate(total_p1_wins, total_p2_wins) ==
    PctOf(total_p1_wins, total_p1_wins + total_p2_wins)

\* Lines 134-137 and 172-175: the pooled p-value.
PooledPValue(total_p1_wins, total_p2_wins) ==
    IF total_p1_wins + total_p2_wins > 0
    THEN Binomtest(total_p1_wins, total_p1_wins + total_p2_wins)
    ELSE PScale

\* Line 180: the win rate the report prints for greedy vs pure_random.
GreedyPooledWinRate(total_p1_wins, total_p2_wins) == 1000

\* Lines 107-146: SECTION 4.1.2, bayesian vs the baselines.
Section412 ==
    /\ Running("s412")
    /\ LET brc_neither == Pairing(neither, "bayesian", "random_commit")
           total_p1_wins == SumSeq(Column(bpr_all, "p1_wins"))
           total_p2_wins == SumSeq(Column(bpr_all, "p2_wins"))
       IN  IF PairBlockRaises(brc_neither)
           THEN Raise("ValueError") /\ UNCHANGED out
           ELSE /\ out' = out \o PairBlock(brc_neither, "brc") \o
                    << <<"bpr_total_p1_wins", total_p1_wins>>,
                       <<"bpr_total_p2_wins", total_p2_wins>>,
                       <<"bpr_win_rate", PooledWinRate(total_p1_wins, total_p2_wins)>>,
                       <<"bpr_p_value", PooledPValue(total_p1_wins, total_p2_wins)>> >>
                /\ Goto("s413")
    /\ UNCHANGED <<df, p_value, sig_text, win_rates, clustered_52_68, below_52,
                   above_68, max_row, overlaps_strategic>>
    /\ UNCHANGED otherThanReport

\* Lines 148-183: SECTION 4.1.3, greedy vs the baselines.
Section413 ==
    /\ Running("s413")
    /\ LET grc_neither == Pairing(neither, "greedy", "random_commit")
           total_p1_wins_g == SumSeq(Column(gpr_all, "p1_wins"))
           total_p2_wins_g == SumSeq(Column(gpr_all, "p2_wins"))
       IN  IF PairBlockRaises(grc_neither)
           THEN Raise("ValueError") /\ UNCHANGED out
           ELSE /\ out' = out \o PairBlock(grc_neither, "grc") \o
                    << <<"gpr_total_p1_wins", total_p1_wins_g>>,
                       <<"gpr_total_p2_wins", total_p2_wins_g>>,
                       <<"gpr_win_rate", GreedyPooledWinRate(total_p1_wins_g, total_p2_wins_g)>>,
                       <<"gpr_p_value", PooledPValue(total_p1_wins_g, total_p2_wins_g)>> >>
                /\ Goto("s414")
    /\ UNCHANGED <<df, p_value, sig_text, win_rates, clustered_52_68, below_52,
                   above_68, max_row, overlaps_strategic>>
    /\ UNCHANGED otherThanReport

\* Lines 185-220: SECTION 4.1.4, self-play.
Section414 ==
    /\ Running("s414")
    /\ LET gg_neither == Pairing(neither, "greedy", "greedy") IN
       IF PairBlockRaises(bb_neither)
       THEN Raise("ValueError") /\ UNCHANGED out
       ELSE IF PairBlockRaises(gg_neither)
       THEN Raise("ValueError") /\ out' = out \o PairBlock(bb_neither, "bb")
       ELSE /\ out' = out \o PairBlock(bb_neither, "bb") \o PairBlock(gg_neither, "gg")
            /\ Goto("table1")
    /\ UNCHANGED <<df, p_value, sig_text, win_rates, clustered_52_68, below_52,
                   above_68, max_row, overlaps_strategic>>
    /\ UNCHANGED otherThanReport

\* Lines 222-245: TABLE 1, one printed line per pairing that has a row.
Table1 ==
    /\ Running("table1")
    /\ out' = out \o << <<"table1_rows", Len(Collect(neither, pairings, "draw_pct"))>> >>
    /\ Goto("s431")
    /\ UNCHANGED <<df, p_value, sig_text, win_rates, clustered_52_68, below_52,
                   above_68, max_row, overlaps_strategic>>
    /\ UNCHANGED otherThanReport

\* min(values) and max(values) of a printed range: min() of an empty list raises.
RangeRaises(values) == values = <<>>

\* Lines 247-288: SECTION 4.3.1, pattern overlap in draws.
Section431 ==
    /\ Running("s431")
    /\ LET strategic == Collect(neither, strategic_pairs, "draw_pattern_overlap_pct")
           overlaps_baseline == Collect(neither, baseline_pairs, "draw_pattern_overlap_pct")
       IN  /\ overlaps_strategic' = strategic
           /\ IF RangeRaises(strategic)
              THEN Raise("ValueError") /\ UNCHANGED out
              ELSE IF RangeRaises(overlaps_baseline)
              THEN /\ Raise("ValueError")
                   /\ out' = out \o << <<"strategic_overlap_min", MinSeq(strategic)>>,
                                       <<"strategic_overlap_max", MaxSeq(strategic)>> >>
              ELSE /\ out' = out \o
                        << <<"strategic_overlap_min", MinSeq(strategic)>>,
                           <<"strategic_overlap_max", MaxSeq(strategic)>>,
                           <<"baseline_overlap_min", MinSeq(overlaps_baseline)>>,
                           <<"baseline_overlap_max", MaxSeq(overlaps_baseline)>> >>
                   /\ Goto("s432")
    /\ UNCHANGED <<df, p_value, sig_text, win_rates, clustered_52_68, below_52,
                   above_68, max_row>>
    /\ UNCHANGED otherThanReport

\* Lines 302-307: a draw sub-count as a percentage of the row's draws.
DrawPct(count, total_draws) == PctOf(count, total_draws)

\* Lines 290-324: SECTION 4.3.2, progress at draw.
Section432 ==
    /\ Running("s432")
    /\ IF Len(bb_neither) > 0
       THEN LET row == bb_neither[1]
                total_draws == row.draws
                asymmetric == row.draw_p1_stuck_p2_ahead + row.draw_p2_stuck_p1_ahead
            IN  out' = out \o
                  << <<"draw_both_high_pct", DrawPct(row.draw_both_high_progress, total_draws)>>,
                     <<"draw_both_stuck_pct", DrawPct(row.draw_both_stuck, total_draws)>>,
                     <<"draw_similar_pct", DrawPct(row.draw_similar_progress, total_draws)>>,
                     <<"draw_asymmetric_pct", DrawPct(asymmetric, total_draws)>> >>
       ELSE UNCHANGED out
    /\ Goto("s433")
    /\ UNCHANGED <<df, p_value, sig_text, win_rates, clustered_52_68, below_52,
                   above_68, max_row, overlaps_strategic>>
    /\ UNCHANGED otherThanReport

\* Lines 343-357: the resolution block prints only when games_reshuffled > 0.
Resolution(rows) ==
    IF Len(rows) > 0 /\ rows[1].games_reshuffled > 0
    THEN LET resolution_pct == PctOf(rows[1].wins_after_reshuffle, rows[1].games_reshuffled)
         IN  << <<"resolution_pct", resolution_pct>>,
                <<"draw_again_pct", 1000 - resolution_pct>> >>
    ELSE <<>>

\* Lines 326-357: SECTION 4.3.3, reshuffle analysis.
Section433 ==
    /\ Running("s433")
    /\ LET strategic_reshuffle == Collect(neither, SubSeq(pairings, 1, 6), "reshuffle_pct")
       IN  IF RangeRaises(strategic_reshuffle)
           THEN Raise("ValueError") /\ UNCHANGED out
           ELSE /\ out' = out \o
                     << <<"reshuffle_min", MinSeq(strategic_reshuffle)>>,
                        <<"reshuffle_max", MaxSeq(strategic_reshuffle)>> >>
                     \o Resolution(bg_neither)
                /\ Goto("s5")
    /\ UNCHANGED <<df, p_value, sig_text, win_rates, clustered_52_68, below_52,
                   above_68, max_row, overlaps_strategic>>
    /\ UNCHANGED otherThanReport

\* Lines 359-372: SECTION 5, draw rate ranges.
Section5 ==
    /\ Running("s5")
    /\ LET strategic_draws == Collect(neither, SubSeq(pairings, 1, 3), "draw_pct")
       IN  IF RangeRaises(strategic_draws)
           THEN Raise("ValueError") /\ UNCHANGED out
           ELSE /\ out' = out \o
                     << <<"strategic_draws_min", MinSeq(strategic_draws)>>,
                        <<"strategic_draws_max", MaxSeq(strategic_draws)>> >>
                /\ Goto("abstract")
    /\ UNCHANGED <<df, p_value, sig_text, win_rates, clustered_52_68, below_52,
                   above_68, max_row, overlaps_strategic>>
    /\ UNCHANGED otherThanReport

\* Lines 374-385: the abstract statistics, the last section of the report.
Abstract ==
    /\ Running("abstract")
    /\ IF Len(bg_neither) = 0
       THEN Goto("done") /\ UNCHANGED out
       ELSE IF RangeRaises(win_rates)
       THEN Raise("ValueError") /\ UNCHANGED out
       ELSE IF clustered_52_68 = <<>>
       THEN Raise("NameError") /\ UNCHANGED out
       ELSE IF RangeRaises(overlaps_strategic)
       THEN Raise("ValueError") /\ UNCHANGED out
       ELSE /\ out' = out \o
                 << <<"abstract_win_rate", bg_neither[1].p1_win_rate_decisive>>,
                    <<"abstract_min", MinSeq(win_rates)>>,
                    <<"abstract_max", MaxSeq(win_rates)>>,
                    <<"abstract_clustered", Len(clustered_52_68[1])>>,
                    <<"abstract_configs", Len(win_rates)>> >>
            /\ Goto("done")
    /\ UNCHANGED <<df, p_value, sig_text, win_rates, clustered_52_68, below_52,
                   above_68, max_row, overlaps_strategic>>
    /\ UNCHANGED otherThanReport

ReportNext ==
    \/ Section411
    \/ AllBayesianVsGreedy
    \/ Section412
    \/ Section413
    \/ Section414
    \/ Table1
    \/ Section431
    \/ Section432
    \/ Section433
    \/ Section5
    \/ Abstract

\* The value printed under a label (each label is printed at most once).
Printed(label) == {out[i][2] : i \in {j \in 1..Len(out) : out[j][1] = label}}

\* The state of res.py when another script is the one that runs.
ReportIdle ==
    /\ df = <<>>
    /\ pc = "idle"
    /\ err = "none"
    /\ p_value = <<>>
    /\ sig_text = <<>>
    /\ win_rates = <<>>
    /\ clustered_52_68 = <<>>
    /\ below_52 = <<>>
    /\ above_68 = <<>>
    /\ max_row = <<>>
    /\ overlaps_strategic = <<>>
    /\ out = <<>>

\* ================================ the significance test, called on its own
\* The binomial test and the bucket text of lines 39-57, applied to inputs
\* drawn from bounded sets: sample sizes 1..MaxSample with every win count,
\* the two worked examples with 100 decisive games, and p-values on and
\* next to the three thresholds.
MaxSample == 8
MaxCalls == 2

ThresholdPValues ==
    {t + d : t \in {PScale \div 1000, PScale \div 100, PScale \div 20}, d \in {-1, 0, 1}}
    \cup {0, PScale}

WinCounts(n) == IF n <= MaxSample THEN 0..n ELSE {55, n}

StatsInit ==
    /\ \E input \in {<<n, <<>>>> : n \in (1..MaxSample) \cup {100}}
                     \cup {<<0, <<p>>>> : p \in ThresholdPValues} :
          /\ decisive = input[1]
          /\ given_p = input[2]
    /\ calls = <<>>
    /\ chosen_text = <<>>

\* p_value = stats.binomtest(p1_wins, n=decisive, p=0.5, alternative='greater').pvalue
CallBinomtest ==
    /\ decisive >= 1
    /\ Len(calls) < MaxCalls
    /\ chosen_text = <<>>
    /\ \E k \in WinCounts(decisive) :
          LET p == Binomtest(k, decisive) IN
          /\ calls' = Append(calls, [k |-> k, pvalue |-> p])
          /\ given_p' = <<p>>
    /\ UNCHANGED <<decisive, chosen_text>>
    /\ UNCHANGED otherThanStats

\* Lines 50-57: the if/elif chain that picks sig_text.
ChooseSigText ==
    /\ given_p # <<>>
    /\ chosen_text = <<>>
    /\ chosen_text' = <<SigText(given_p[1])>>
    /\ UNCHANGED <<decisive, calls, given_p>>
    /\ UNCHANGED otherThanStats

StatsNext == CallBinomtest \/ ChooseSigText

StatsIdle ==
    /\ decisive = 0
    /\ calls = <<>>
    /\ given_p = <<>>
    /\ chosen_text = <<>>

\* ==================================================== plots.py: the figures
\* Lines 59-67.
pairing_configs ==
    << <<"bayesian", "bayesian">>, <<"bayesian", "greedy">>,
       <<"bayesian", "random_commit">>, <<"bayesian", "pure_random">>,
       <<"greedy", "greedy">>, <<"greedy", "random_commit">>,
       <<"greedy", "pure_random">> >>

\* Lines 142-152.
all_pairing_configs ==
    << <<"bayesian", "bayesian">>, <<"bayesian", "greedy">>, <<"greedy", "greedy">>,
       <<"bayesian", "random_commit">>, <<"greedy", "random_commit">>,
       <<"bayesian", "pure_random">>, <<"random_commit", "random_commit">>,
       <<"random_commit", "pure_random">>, <<"pure_random", "pure_random">> >>

chart_neither == Neither(chart_df)

\* neither[(neither['player1_type'] == p1_type) & (neither['player2_type'] == p2_type)]
NeitherRow(pair) == Pairing(chart_neither, pair[1], pair[2])

\* The largest s with s * s <= q, found between lo and hi.
RECURSIVE ISqrtBetween(_, _, _)
ISqrtBetween(q, lo, hi) ==
    IF lo >= hi THEN lo
    ELSE LET mid == (lo + hi + 1) \div 2
         IN  IF mid * mid <= q THEN ISqrtBetween(q, mid, hi)
             ELSE ISqrtBetween(q, lo, mid - 1)

\* np.sqrt on a value scaled by 10^8, giving the root scaled by 10^4.
Sqrt(q) == IF q < 0 THEN NaN ELSE ISqrtBetween(q, 0, 10000)

\* The half-width without the division by the number of games.
HalfWidthNoSampleSize(win_rate, decisive_games) ==
    LET root == Sqrt(win_rate * (1000 - win_rate) * 100)
    IN  IF root = NaN THEN NaN ELSE (196 * root) \div 100

\* Lines 88-91: 1.96 * np.sqrt(p * (1 - p) / decisive_games) * 100 with
\* p = win_rate / 100, in hundredths of a percent.
HalfWidth(win_rate, decisive_games) ==
    LET root == Sqrt((win_rate * (1000 - win_rate) * 100) \div decisive_games)
    IN  IF root = NaN THEN NaN ELSE (196 * root) \div 100

\* Lines 87-96: the error bar of one side of a row that is present.
ErrorBar(win_rate, decisive_games) ==
    IF decisive_games > 0 THEN HalfWidth(win_rate, decisive_games) ELSE 0

\* The loop with the else branch left out: nothing is appended for a pairing
\* that has no row.
SeriesOfPresentPairs(pairs, value_of) ==
    LET Present(pair) == Len(NeitherRow(pair)) > 0
        present == SelectSeq(pairs, Present)
    IN  [i \in 1..Len(present) |-> value_of[NeitherRow(present[i])[1]]]

\* The rows of neither, as a set.
NeitherRows == {chart_neither[i] : i \in 1..Len(chart_neither)}

\* A loop "for p1_type, p2_type in pairs: row = neither[...]; if len(row) > 0:
\* series.append(value of row.iloc[0]) else: series.append(0)"; value_of gives
\* the value the loop body computes from a row.
Series(pairs, value_of) ==
    [i \in 1..Len(pairs) |->
        IF Len(NeitherRow(pairs[i])) > 0 THEN value_of[NeitherRow(pairs[i])[1]] ELSE 0]

\* The pairings of a list that have no row, in list order.
MissingPairs(pairs) ==
    LET Test(pair) == Len(NeitherRow(pair)) = 0 IN SelectSeq(pairs, Test)

\* The warnings a loop prints: one line per missing pairing.
WarningsOf(series, pairs) ==
    LET missing == MissingPairs(pairs)
    IN  [i \in 1..Len(missing) |->
            [series |-> series, p1_type |-> missing[i][1], p2_type |-> missing[i][2]]]

\* The loops of lines 188-194 and 344-368 print nothing for a missing pairing.
NoWarnings(series, pairs) == <<>>

Fig1Warnings(pairs) == WarningsOf("win_rates", pairs)
DrawRateWarnings(pairs) == WarningsOf("draw_rates", pairs)
OverlapWarnings(pairs) == NoWarnings("overlap_rates", pairs)
ReshuffleWarnings(pairs) == NoWarnings("reshuffle", pairs)

ChartRunning(part) == chart_pc = part /\ chart_err = "none"

ChartInit ==
    /\ csv_exists \in BOOLEAN
    /\ csv_rows \in (IF csv_exists THEN SeqsUpTo(ReportRows, MaxRows) ELSE {<<>>})
    /\ chart_df = <<>>
    /\ chart_pc = "makedirs"
    /\ chart_err = "none"
    /\ plots_dir \in BOOLEAN
    /\ p1_wins = <<>>
    /\ p2_wins = <<>>
    /\ p1_errors = <<>>
    /\ p2_errors = <<>>
    /\ panel_draw_rates = <<>>
    /\ overlap_rates = <<>>
    /\ won_before_reshuffle = <<>>
    /\ won_after_reshuffle = <<>>
    /\ drew_after_reshuffle = <<>>
    /\ warnings = <<>>
    /\ saved = {}
    /\ listed = {}

\* os.makedirs('./plots') without exist_ok: an existing directory is an error.
MakeDirsExclusive ==
    /\ ChartRunning("makedirs")
    /\ IF plots_dir
       THEN chart_pc' = chart_pc /\ chart_err' = "FileExistsError"
       ELSE chart_pc' = "read_csv" /\ chart_err' = "none"
    /\ plots_dir' = TRUE
    /\ UNCHANGED <<csv_exists, csv_rows, chart_df, p1_wins, p2_wins,
                   p1_errors, p2_errors, panel_draw_rates, overlap_rates,
                   won_before_reshuffle, won_after_reshuffle, drew_after_reshuffle,
                   warnings, saved, listed>>
    /\ UNCHANGED otherThanCharts

\* Line 13: os.makedirs('./plots', exist_ok=True).
MakeDirs ==
    /\ ChartRunning("makedirs")
    /\ plots_dir' = TRUE
    /\ chart_pc' = "read_csv"
    /\ UNCHANGED <<csv_exists, csv_rows, chart_df, chart_err, p1_wins, p2_wins,
                   p1_errors, p2_errors, panel_draw_rates, overlap_rates,
                   won_before_reshuffle, won_after_reshuffle, drew_after_reshuffle,
                   warnings, saved, listed>>
    /\ UNCHANGED otherThanCharts

\* Lines 30-38: df = pd.read_csv(...); neither = df[df['config_name'] == 'neither'].
ReadCsv ==
    /\ ChartRunning("read_csv")
    /\ IF csv_exists
       THEN chart_df' = csv_rows /\ chart_pc' = "fig1" /\ chart_err' = "none"
       ELSE chart_df' = chart_df /\ chart_pc' = chart_pc /\ chart_err' = "FileNotFoundError"
    /\ UNCHANGED <<csv_exists, csv_rows, plots_dir, p1_wins, p2_wins,
                   p1_errors, p2_errors, panel_draw_rates, overlap_rates,
                   won_before_reshuffle, won_after_reshuffle, drew_after_reshuffle,
                   warnings, saved, listed>>
    /\ UNCHANGED otherThanCharts

\* Lines 40-128: Figure 1, win rates with error bars.
Figure1 ==
    /\ ChartRunning("fig1")
    /\ LET P1Rate == [row \in NeitherRows |-> row.p1_win_rate_decisive]
           P2Rate == [row \in NeitherRows |-> row.p2_win_rate_decisive]
           P1Err == [row \in NeitherRows |->
                        ErrorBar(row.p1_win_rate_decisive, row.decisive_games)]
           P2Err == [row \in NeitherRows |->
                        ErrorBar(row.p2_win_rate_decisive, row.decisive_games)]
       IN  /\ p1_wins' = Series(pairing_configs, P1Rate)
           /\ p2_wins' = Series(pairing_configs, P2Rate)
           /\ p1_errors' = Series(pairing_configs, P1Err)
           /\ p2_errors' = Series(pairing_configs, P2Err)
    /\ warnings' = warnings \o Fig1Warnings(pairing_configs)
    /\ saved' = saved \cup {"fig_winrates.pdf"}
    /\ chart_pc' = "fig2"
    /\ UNCHANGED <<csv_exists, csv_rows, chart_df, chart_err, plots_dir,
                   panel_draw_rates, overlap_rates, won_before_reshuffle,
                   won_after_reshuffle, drew_after_reshuffle, listed>>
    /\ UNCHANGED otherThanCharts

\* Lines 130-220: Figure 2, draw rates and pattern overlap.
Figure2 ==
    /\ ChartRunning("fig2")
    /\ LET DrawPctOf == [row \in NeitherRows |-> row.draw_pct]
           OverlapOf == [row \in NeitherRows |-> row.draw_pattern_overlap_pct]
       IN  /\ panel_draw_rates' = Series(all_pairing_configs, DrawPctOf)
           /\ overlap_rates' = Series(all_pairing_configs, OverlapOf)
    /\ warnings' = warnings \o DrawRateWarnings(all_pairing_configs)
                            \o OverlapWarnings(all_pairing_configs)
    /\ saved' = saved \cup {"fig_drawanalysis.pdf"}
    /\ chart_pc' = "figS1"
    /\ UNCHANGED <<csv_exists, csv_rows, chart_df, chart_err, plots_dir,
                   p1_wins, p2_wins, p1_errors, p2_errors, won_before_reshuffle,
                   won_after_reshuffle, drew_after_reshuffle, listed>>
    /\ UNCHANGED otherThanCharts

\* Lines 222-272: Figure S1, draw rate by nervousness configuration.
FigureS1 ==
    /\ ChartRunning("figS1")
    /\ saved' = saved \cup {"fig_nervousness.pdf"}
    /\ chart_pc' = "figS2"
    /\ UNCHANGED <<csv_exists, csv_rows, chart_df, chart_err, plots_dir,
                   p1_wins, p2_wins, p1_errors, p2_errors, panel_draw_rates,
                   overlap_rates, won_before_reshuffle, won_after_reshuffle,
                   drew_after_reshuffle, warnings, listed>>
    /\ UNCHANGED otherThanCharts

\* Lines 274-330: Figure S2, drawn only when bayesian vs bayesian has a row.
FigureS2 ==
    /\ ChartRunning("figS2")
    /\ saved' = IF Len(NeitherRow(<<"bayesian", "bayesian">>)) > 0
                THEN saved \cup {"fig_progress_histogram.pdf"}
                ELSE saved
    /\ chart_pc' = "figS3"
    /\ UNCHANGED <<csv_exists, csv_rows, chart_df, chart_err, plots_dir,
                   p1_wins, p2_wins, p1_errors, p2_errors, panel_draw_rates,
                   overlap_rates, won_before_reshuffle, won_after_reshuffle,
                   drew_after_reshuffle, warnings, listed>>
    /\ UNCHANGED otherThanCharts

\* Lines 352-360: the segments of one row that is present.
NeverReshuffledPct(r) == 1000 - r.reshuffle_pct

WonAfterPct(r) ==
    IF r.games_reshuffled > 0 THEN PctOf(r.wins_after_reshuffle, r.total_games) ELSE 0

DrewAfterPct(r) == r.draw_pct

\* Lines 332-395: Figure S3, reshuffle impact.
FigureS3 ==
    /\ ChartRunning("figS3")
    /\ won_before_reshuffle' =
          Series(all_pairing_configs, [r \in NeitherRows |-> NeverReshuffledPct(r)])
    /\ won_after_reshuffle' =
          Series(all_pairing_configs, [r \in NeitherRows |-> WonAfterPct(r)])
    /\ drew_after_reshuffle' =
          Series(all_pairing_configs, [r \in NeitherRows |-> DrewAfterPct(r)])
    /\ warnings' = warnings \o ReshuffleWarnings(all_pairing_configs)
    /\ saved' = saved \cup {"fig_reshuffle.pdf"}
    /\ chart_pc' = "final"
    /\ UNCHANGED <<csv_exists, csv_rows, chart_df, chart_err, plots_dir,
                   p1_wins, p2_wins, p1_errors, p2_errors, panel_draw_rates,
                   overlap_rates, listed>>
    /\ UNCHANGED otherThanCharts

\* Lines 397-406: "ALL FIGURES GENERATED SUCCESSFULLY" and the file listing.
FinalListing ==
    /\ ChartRunning("final")
    /\ listed' = {"fig_winrates.pdf", "fig_drawanalysis.pdf", "fig_nervousness.pdf",
                  "fig_progress_histogram.pdf", "fig_reshuffle.pdf"}
    /\ chart_pc' = "done"
    /\ UNCHANGED <<csv_exists, csv_rows, chart_df, chart_err, plots_dir,
                   p1_wins, p2_wins, p1_errors, p2_errors, panel_draw_rates,
                   overlap_rates, won_before_reshuffle, won_after_reshuffle,
                   drew_after_reshuffle, warnings, saved>>
    /\ UNCHANGED otherThanCharts

ChartNext ==
    \/ MakeDirs
    \/ ReadCsv
    \/ Figure1
    \/ Figure2
    \/ FigureS1
    \/ FigureS2
    \/ FigureS3
    \/ FinalListing

ChartIdle ==
    /\ csv_exists = FALSE
    /\ csv_rows = <<>>
    /\ chart_df = <<>>
    /\ chart_pc = "idle"
    /\ chart_err = "none"
    /\ plots_dir = FALSE
    /\ p1_wins = <<>>
    /\ p2_wins = <<>>
    /\ p1_errors = <<>>
    /\ p2_errors = <<>>
    /\ panel_draw_rates = <<>>
    /\ overlap_rates = <<>>
    /\ won_before_reshuffle = <<>>
    /\ won_after_reshuffle = <<>>
    /\ drew_after_reshuffle = <<>>
    /\ warnings = <<>>
    /\ saved = {}
    /\ listed = {}

\* ============================================= viz.py: the draw visualiser
\* Progress and overlap values are fixed-point integers in thousandths:
\* the fraction 0.7 is 700, the percentage 69.9 is 69900, 70.0 is 70000.
\* Longest draw-detail table (rows of pattern_overlap_details.csv).
MaxDraws == 2

\* A cell that is empty in the CSV file is read as NaN.
ProgressValues == {700, 40000, 50000, 69900, 70000, NaN}

IsNumber(x) == x # NaN

\* Comparisons of a column with a threshold: a comparison with NaN is False.
Lt(a, b) == IsNumber(a) /\ a < b
Le(a, b) == IsNumber(a) /\ a <= b
Gt(a, b) == IsNumber(a) /\ a > b
Ge(a, b) == IsNumber(a) /\ a >= b

\* Column arithmetic: NaN in, NaN out.
Times(a, k) == IF IsNumber(a) THEN a * k ELSE NaN
Plus(a, b) == IF IsNumber(a) /\ IsNumber(b) THEN a + b ELSE NaN
Minus(a, b) == IF IsNumber(a) /\ IsNumber(b) THEN a - b ELSE NaN

\* Series.max(): the largest number of the column (NaN is skipped), NaN when
\* the column holds no number.
ColumnMax(values) ==
    LET numbers == SelectSeq(values, IsNumber)
    IN  IF numbers = <<>> THEN NaN ELSE MaxSeq(numbers)

DrawDetailRow(player, opponent) ==
    [ p1_type |-> "bayesian", p2_type |-> "greedy",
      player_progress |-> player,
      opponent_progress |-> opponent,
      overlap_pct |-> IF player = opponent THEN 100000 ELSE 50000 ]

DrawRows == {DrawDetailRow(a, b) : a, b \in ProgressValues}

\* df[column] = values: the column is added to (or replaced in) every row.
WithColumn(table, column, values) ==
    [i \in 1..Len(table) |->
        [f \in (DOMAIN table[i]) \cup {column} |->
            IF f = column THEN values[i] ELSE table[i][f]]]

\* Lines 13-20: load_data.
load_data(rows) ==
    LET Times100(column) == [i \in 1..Len(rows) |-> Times(rows[i][column], 100)]
    IN  IF Le(ColumnMax(Column(rows, "player_progress")), 1000)
        THEN WithColumn(WithColumn(rows, "player_progress", Times100("player_progress")),
                        "opponent_progress", Times100("opponent_progress"))
        ELSE rows

\* The labels with the thresholds taken as exclusive lower bounds.
DrawTypeExclusive(player, opponent) ==
    LET unknown == "Unknown"
        stuck == IF Le(player, 50000) /\ Le(opponent, 50000)
                 THEN "Both Stuck (<50%)" ELSE unknown
        mid == IF Gt(player, 50000) /\ Le(player, 70000)
                    /\ Gt(opponent, 50000) /\ Le(opponent, 70000)
               THEN "Both Mid (50-70%)" ELSE stuck
        high == IF Gt(player, 70000) /\ Gt(opponent, 70000)
                THEN "Both High (>=70%)" ELSE mid
        p1 == IF Gt(player, 70000) /\ Le(opponent, 70000) THEN "P1 Ahead" ELSE high
    IN  IF Le(player, 70000) /\ Gt(opponent, 70000) THEN "P2 Ahead" ELSE p1

\* Lines 246-253: the label of one row.  Each df.loc[...] = label assignment
\* overwrites the label of the rows its condition selects, in program order.
DrawType(player, opponent) ==
    LET unknown == "Unknown"
        stuck == IF Lt(player, 50000) /\ Lt(opponent, 50000)
                 THEN "Both Stuck (<50%)" ELSE unknown
        mid == IF Ge(player, 50000) /\ Lt(player, 70000)
                    /\ Ge(opponent, 50000) /\ Lt(opponent, 70000)
               THEN "Both Mid (50-70%)" ELSE stuck
        high == IF Ge(player, 70000) /\ Ge(opponent, 70000)
                THEN "Both High (>=70%)" ELSE mid
        p1 == IF Ge(player, 70000) /\ Lt(opponent, 70000) THEN "P1 Ahead" ELSE high
    IN  IF Lt(player, 70000) /\ Ge(opponent, 70000) THEN "P2 Ahead" ELSE p1

\* The table holds a NaN progress value.
HasNaN(table) ==
    \E i \in 1..Len(table) :
        ~IsNumber(table[i].player_progress) \/ ~IsNumber(table[i].opponent_progress)

\* What a plotting call of matplotlib or seaborn does on a table with no rows
\* or with NaN values is not decided by this repository: it may draw the chart
\* or raise.
PlotOutcomes(table) ==
    IF table = <<>> \/ HasNaN(table) THEN {"drawn", "raised"} ELSE {"drawn"}

VizRunning(step) == viz_pc = step /\ viz_err = "none"

\* One plot function that only reads the table and saves one file.
Plot(step, file, next) ==
    /\ VizRunning(step)
    /\ \E outcome \in PlotOutcomes(draws_df) :
          IF outcome = "drawn"
          THEN viz_saved' = viz_saved \cup {file} /\ viz_pc' = next /\ viz_err' = "none"
          ELSE viz_saved' = viz_saved /\ viz_pc' = viz_pc /\ viz_err' = "Exception"

\* main() from the point where the CSV file is known to exist (line 343).
VizInit ==
    /\ draws_csv \in SeqsUpTo(DrawRows, MaxDraws)
    /\ draws_df = <<>>
    /\ viz_pc = "load_data"
    /\ viz_err = "none"
    /\ summary = <<>>
    /\ viz_saved = {}

\* Lines 348-355: df = load_data(csv_path); output_dir.mkdir(exist_ok=True).
LoadData ==
    /\ VizRunning("load_data")
    /\ draws_df' = load_data(draws_csv)
    /\ viz_pc' = "scatter"
    /\ UNCHANGED <<draws_csv, viz_err, summary, viz_saved>>
    /\ UNCHANGED otherThanViz

\* Lines 22-65: plot_progress_scatter.
PlotProgressScatter ==
    /\ Plot("scatter", "draw_progress_scatter.png", "differences")
    /\ UNCHANGED <<draws_csv, draws_df, summary>>
    /\ UNCHANGED otherThanViz

\* Lines 67-105: plot_progress_difference_histogram adds the columns
\* progress_diff and matchup.
PlotProgressDifferenceHistogram ==
    /\ Plot("differences", "draw_progress_differences.png", "heatmap")
    /\ LET progress_diff == [i \in 1..Len(draws_df) |->
                  Minus(draws_df[i].player_progress, draws_df[i].opponent_progress)]
           matchup == [i \in 1..Len(draws_df) |->
                  draws_df[i].p1_type \o " vs " \o draws_df[i].p2_type]
       IN  draws_df' = WithColumn(WithColumn(draws_df, "progress_diff", progress_diff),
                                  "matchup", matchup)
    /\ UNCHANGED <<draws_csv, summary>>
    /\ UNCHANGED otherThanViz

\* Lines 107-157: plot_progress_heatmap.
PlotProgressHeatmap ==
    /\ Plot("heatmap", "draw_progress_heatmap.png", "by_overlap")
    /\ UNCHANGED <<draws_csv, draws_df, summary>>
    /\ UNCHANGED otherThanViz

\* Lines 159-214: plot_progress_by_overlap.
PlotProgressByOverlap ==
    /\ Plot("by_overlap", "draw_progress_by_overlap.png", "symmetry")
    /\ UNCHANGED <<draws_csv, draws_df, summary>>
    /\ UNCHANGED otherThanViz

AbsDiff(a, b) == IF Minus(a, b) = NaN THEN NaN ELSE IF a >= b THEN a - b ELSE b - a

\* Lines 216-276: plot_symmetric_analysis adds progress_sum, progress_diff_abs
\* and draw_type.
PlotSymmetricAnalysis ==
    /\ Plot("symmetry", "draw_symmetry_analysis.png", "summary")
    /\ LET progress_sum == [i \in 1..Len(draws_df) |->
                  Plus(draws_df[i].player_progress, draws_df[i].opponent_progress)]
           progress_diff_abs == [i \in 1..Len(draws_df) |->
                  AbsDiff(draws_df[i].player_progress, draws_df[i].opponent_progress)]
           draw_type == [i \in 1..Len(draws_df) |->
                  DrawType(draws_df[i].player_progress, draws_df[i].opponent_progress)]
       IN  draws_df' = WithColumn(WithColumn(WithColumn(draws_df,
                            "progress_sum", progress_sum),
                            "progress_diff_abs", progress_diff_abs),
                            "draw_type", draw_type)
    /\ UNCHANGED <<draws_csv, summary>>
    /\ UNCHANGED otherThanViz

\* (mask).sum(): the number of rows a boolean mask selects.
CountRows(mask) == Cardinality({i \in 1..Len(mask) : mask[i]})

\* count / len(df) * 100 on a numpy integer, in tenths of a percent.
SharePct(count, rows) == PctOf(count, rows)

\* Lines 278-319: generate_summary_stats.
GenerateSummaryStats ==
    /\ VizRunning("summary")
    /\ LET player == Column(draws_df, "player_progress")
           opponent == Column(draws_df, "opponent_progress")
           n == Len(draws_df)
           Exact == [i \in 1..n |-> draws_df[i].overlap_pct >= 100000]
           BothHigh == [i \in 1..n |-> Ge(player[i], 70000) /\ Ge(opponent[i], 70000)]
           BothStuck == [i \in 1..n |-> Lt(player[i], 70000) /\ Lt(opponent[i], 70000)]
           P1Ahead == [i \in 1..n |-> Ge(player[i], 70000) /\ Lt(opponent[i], 70000)]
           P2Ahead == [i \in 1..n |-> Lt(player[i], 70000) /\ Ge(opponent[i], 70000)]
       IN  summary' = << [ total |-> n,
                           exact_matches |-> CountRows(Exact),
                           exact_matches_pct |-> SharePct(CountRows(Exact), n),
                           both_high |-> CountRows(BothHigh),
                           both_high_pct |-> SharePct(CountRows(BothHigh), n),
                           both_stuck |-> CountRows(BothStuck),
                           both_stuck_pct |-> SharePct(CountRows(BothStuck), n),
                           p1_ahead |-> CountRows(P1Ahead),
                           p1_ahead_pct |-> SharePct(CountRows(P1Ahead), n),
                           p2_ahead |-> CountRows(P2Ahead),
                           p2_ahead_pct |-> SharePct(CountRows(P2Ahead), n) ] >>
    /\ viz_saved' = viz_saved \cup {"draw_analysis_summary.txt"}
    /\ viz_pc' = "done"
    /\ UNCHANGED <<draws_csv, draws_df, viz_err>>
    /\ UNCHANGED otherThanViz

VizNext ==
    \/ LoadData
    \/ PlotProgressScatter
    \/ PlotProgressDifferenceHistogram
    \/ PlotProgressHeatmap
    \/ PlotProgressByOverlap
    \/ PlotSymmetricAnalysis
    \/ GenerateSummaryStats

VizIdle ==
    /\ draws_csv = <<>>
    /\ draws_df = <<>>
    /\ viz_pc = "idle"
    /\ viz_err = "none"
    /\ summary = <<>>
    /\ viz_saved = {}

\* ================================== viz.py: main() up to the call of load_data
\* A directory comparison_results_<n> is named by its position n in the sorted
\* order of the directory names; a modification time is a position in time
\* order.  A path is the directory that holds pattern_overlap_details.csv;
\* directory 0 stands for a path given on the command line.
MaxDirs == 3

DirNames == 1..MaxDirs

GivenPath == [dir |-> 0]

DetailsCsv(name) == [dir |-> name]

\* The sets of directories: distinct names, distinct modification times.
DirectorySets ==
    {d \in SUBSET [name : DirNames, mtime : 1..MaxDirs] :
        \A a, b \in d : a # b => (a.name # b.name /\ a.mtime # b.mtime)}

\* sorted(Path('.').glob('comparison_results_*'))[-1]: the last in name order.
LastSorted(dirs) == CHOOSE d \in dirs : \A e \in dirs : e.name <= d.name

\* The most recently modified directory.
LastModified(dirs) == CHOOSE d \in dirs : \A e \in dirs : e.mtime <= d.mtime

\* A check that finds every file.
CsvNeverMissing(path) == FALSE

\* Line 339: not csv_path.exists().
CsvMissing(path) == path \notin files

EntryRunning(part) == entry_pc = part /\ exit_status = <<>>

\* sys.exit(1) after an error message.
ExitWith(message, names) ==
    /\ diagnostic' = Append(diagnostic, [message |-> message, names |-> names])
    /\ exit_status' = <<1>>
    /\ entry_pc' = "exited"

EntryInit ==
    /\ argv \in {<<>>, <<GivenPath>>}
    /\ result_dirs \in DirectorySets
    /\ files \in SUBSET ({GivenPath} \cup {DetailsCsv(d.name) : d \in result_dirs})
    /\ csv_path = <<>>
    /\ entry_pc = "resolve"
    /\ exit_status = <<>>
    /\ diagnostic = <<>>

\* Lines 327-337: the path from the command line, or from the last directory.
ResolveCsvPath ==
    /\ EntryRunning("resolve")
    /\ IF Len(argv) > 0
       THEN /\ csv_path' = <<argv[1]>>
            /\ entry_pc' = "exists"
            /\ UNCHANGED <<exit_status, diagnostic>>
       ELSE IF result_dirs = {}
       THEN /\ ExitWith("Error: No comparison_results directories found!",
                        "comparison_results")
            /\ UNCHANGED csv_path
       ELSE /\ csv_path' = <<DetailsCsv(LastSorted(result_dirs).name)>>
            /\ entry_pc' = "exists"
            /\ UNCHANGED <<exit_status, diagnostic>>
    /\ UNCHANGED <<argv, result_dirs, files>>
    /\ UNCHANGED otherThanEntry

\* Lines 339-341: the file must exist.
CheckCsvExists ==
    /\ EntryRunning("exists")
    /\ IF CsvMissing(csv_path[1])
       THEN ExitWith("Error: CSV file not found: ", csv_path[1])
       ELSE entry_pc' = "load" /\ UNCHANGED <<exit_status, diagnostic>>
    /\ UNCHANGED <<argv, result_dirs, files, csv_path>>
    /\ UNCHANGED otherThanEntry

\* Lines 343-350: the banner, then df = load_data(csv_path).
CallLoadData ==
    /\ EntryRunning("load")
    /\ entry_pc' = "loaded"
    /\ UNCHANGED <<argv, result_dirs, files, csv_path, exit_status, diagnostic>>
    /\ UNCHANGED otherThanEntry

EntryNext == ResolveCsvPath \/ CheckCsvExists \/ CallLoadData

EntryIdle ==
    /\ argv = <<>>
    /\ result_dirs = {}
    /\ files = {}
    /\ csv_path = <<>>
    /\ entry_pc = "idle"
    /\ exit_status = <<>>
    /\ diagnostic = <<>>

\* ============================== a script run twice on unchanged input files
\* A run of res.py or plots.py is over when it reached its end or raised.
ReportOver == pc # "idle" /\ (pc = "done" \/ err # "none")
ChartsOver == chart_pc # "idle" /\ (chart_pc = "done" \/ chart_err # "none")

\* What a run of res.py produced: the printed values and how the run ended.
ReportOutput == [printed |-> out, sig_text |-> sig_text, ended |-> <<pc, err>>]

\* What a run of plots.py produced: the chart data series, the warnings and
\* how the run ended.
ChartOutput ==
    [ p1_wins |-> p1_wins, p2_wins |-> p2_wins,
      p1_errors |-> p1_errors, p2_errors |-> p2_errors,
      draw_rates |-> panel_draw_rates, overlap_rates |-> overlap_rates,
      won_before_reshuffle |-> won_before_reshuffle,
      won_after_reshuffle |-> won_after_reshuffle,
      drew_after_reshuffle |-> drew_after_reshuffle,
      warnings |-> warnings, ended |-> <<chart_pc, chart_err>> ]

\* Either script is about to run for the first time.
RerunInit ==
    /\ first_run = <<>>
    /\ \/ ReportInit /\ ChartIdle
       \/ ChartInit /\ ReportIdle

\* res.py is started again: a new process (lines 11-23) on the same file.
RunReportAgain ==
    /\ ReportOver
    /\ first_run = <<>>
    /\ first_run' = <<ReportOutput>>
    /\ df' = df
    /\ pc' = "s411"
    /\ err' = "none"
    /\ p_value' = <<>>
    /\ sig_text' = <<>>
    /\ win_rates' = <<>>
    /\ clustered_52_68' = <<>>
    /\ below_52' = <<>>
    /\ above_68' = <<>>
    /\ max_row' = <<>>
    /\ overlaps_strategic' = <<>>
    /\ out' = <<>>
    /\ UNCHANGED <<statsVars, chartVars, vizVars, entryVars>>

\* plots.py is started again: a new process on the same file; the directory
\* ./plots and the files in it are what the first run left.
RunChartsAgain ==
    /\ ChartsOver
    /\ first_run = <<>>
    /\ first_run' = <<ChartOutput>>
    /\ chart_df' = <<>>
    /\ chart_pc' = "makedirs"
    /\ chart_err' = "none"
    /\ p1_wins' = <<>>
    /\ p2_wins' = <<>>
    /\ p1_errors' = <<>>
    /\ p2_errors' = <<>>
    /\ panel_draw_rates' = <<>>
    /\ overlap_rates' = <<>>
    /\ won_before_reshuffle' = <<>>
    /\ won_after_reshuffle' = <<>>
    /\ drew_after_reshuffle' = <<>>
    /\ warnings' = <<>>
    /\ saved' = {}
    /\ listed' = {}
    /\ UNCHANGED <<csv_exists, csv_rows, plots_dir>>
    /\ UNCHANGED <<reportVars, statsVars, vizVars, entryVars>>

RerunNext ==
    \/ ReportNext
    \/ ChartNext
    \/ RunReportAgain
    \/ RunChartsAgain

\* ======================================================= the specifications
vars == <<reportVars, statsVars, chartVars, vizVars, entryVars, first_run>>

\* res.py or plots.py, run twice on the same input files.
InitRerun == RerunInit /\ StatsIdle /\ VizIdle /\ EntryIdle
SpecRerun == InitRerun /\ [][RerunNext]_vars

\* viz.py main() from its start to the call of load_data.
InitEntry == EntryInit /\ ReportIdle /\ StatsIdle /\ ChartIdle /\ VizIdle /\ first_run = <<>>
SpecEntry == InitEntry /\ [][EntryNext]_vars

\* res.py on a results table that exists.
InitReport == ReportInit /\ StatsIdle /\ ChartIdle /\ VizIdle /\ EntryIdle /\ first_run = <<>>
SpecReport == InitReport /\ [][ReportNext]_vars

\* The significance test and its bucket text on their own.
InitStats == StatsInit /\ ReportIdle /\ ChartIdle /\ VizIdle /\ EntryIdle /\ first_run = <<>>
SpecStats == InitStats /\ [][StatsNext]_vars

\* plots.py.
InitPlots == ChartInit /\ ReportIdle /\ StatsIdle /\ VizIdle /\ EntryIdle /\ first_run = <<>>
SpecPlots == InitPlots /\ [][ChartNext]_vars

\* viz.py.
InitViz == VizInit /\ ReportIdle /\ StatsIdle /\ ChartIdle /\ EntryIdle /\ first_run = <<>>
SpecViz == InitViz /\ [][VizNext]_vars

\* ================================================================ properties
FiveCategories ==
    {"Both Stuck (<50%)", "Both Mid (50-70%)", "Both High (>=70%)", "P1 Ahead", "P2 Ahead"}

\* The rows that plot_symmetric_analysis has labelled.
LabelledRows == {i \in 1..Len(draws_df) : "draw_type" \in DOMAIN draws_df[i]}

InPercentRange(x) == 0 <= x /\ x <= 100000

\* C1: every row whose two progress values lie in [0,100] carries one of the
\* five category labels once the draws are categorised; 'Unknown' never survives.
C1_ExactlyOneCategory ==
    \A i \in LabelledRows :
        (InPercentRange(draws_df[i].player_progress)
            /\ InPercentRange(draws_df[i].opponent_progress))
        => draws_df[i].draw_type \in FiveCategories

\* C2: both thresholds are inclusive lower bounds: (50.0, 50.0) is 'Both Mid' and
\* not 'Both Stuck', (70.0, 70.0) is 'Both High', (70.0, 69.9) is 'P1 Ahead';
\* in general a value of exactly 50 counts as mid and exactly 70 as high or ahead.
\* The rows concerned are those whose two progress values are numbers.
C2_ThresholdsInclusive ==
    \A i \in {r \in LabelledRows : ~HasNaN(<<draws_df[r]>>)} :
        LET player == draws_df[i].player_progress
            opponent == draws_df[i].opponent_progress
            label == draws_df[i].draw_type
        IN  /\ (player = 50000 /\ opponent = 50000) => label = "Both Mid (50-70%)"
            /\ (player = 70000 /\ opponent = 70000) => label = "Both High (>=70%)"
            /\ (player = 70000 /\ opponent = 69900) => label = "P1 Ahead"
            /\ (player = 69900 /\ opponent = 70000) => label = "P2 Ahead"
            /\ (player >= 70000 /\ opponent >= 70000) => label = "Both High (>=70%)"
            /\ (player >= 50000 /\ player < 70000 /\ opponent >= 50000 /\ opponent < 70000)
                  => label = "Both Mid (50-70%)"
            /\ (player < 50000 /\ opponent < 50000) => label = "Both Stuck (<50%)"

\* C2 witness: one labelled table holds a pair on the 70 boundary and a pair on
\* the 50 boundary, labelled 'P1 Ahead' and 'Both Mid'.
C2_Witness ==
    /\ viz_pc = "summary"
    /\ \E i, j \in LabelledRows :
          /\ draws_df[i].player_progress = 70000
          /\ draws_df[i].opponent_progress = 69900
          /\ draws_df[i].draw_type = "P1 Ahead"
          /\ draws_df[j].player_progress = 50000
          /\ draws_df[j].opponent_progress = 50000
          /\ draws_df[j].draw_type = "Both Mid (50-70%)"

\* C3: on any results table, also one whose rows all have decisive games,
\* res.py runs from its first section to its last without raising: a pairing
\* with no matching row is an empty result and the run goes on.
C3_RunsToLastSection ==
    (\A i \in 1..Len(df) : df[i].decisive_games > 0) => err = "none"

SeriesOf(name) ==
    IF name = "win_rates" THEN p1_wins
    ELSE IF name = "draw_rates" THEN panel_draw_rates
    ELSE IF name = "overlap_rates" THEN overlap_rates
    ELSE won_before_reshuffle

PairsOf(name) == IF name = "win_rates" THEN pairing_configs ELSE all_pairing_configs

\* C4: at the end of plots.py, every pairing of every bar-chart series that has
\* no 'neither' row has the value 0 in the series (error bars 0), and a warning
\* naming that pairing was printed for that series.
C4_MissingPairingWarned ==
    chart_pc = "done" =>
        \A name \in {"win_rates", "draw_rates", "overlap_rates", "reshuffle"} :
            \A i \in 1..Len(PairsOf(name)) :
                Len(NeitherRow(PairsOf(name)[i])) = 0 =>
                    /\ SeriesOf(name)[i] = 0
                    /\ name = "win_rates" =>
                          (p2_wins[i] = 0 /\ p1_errors[i] = 0 /\ p2_errors[i] = 0)
                    /\ name = "reshuffle" =>
                          (won_after_reshuffle[i] = 0 /\ drew_after_reshuffle[i] = 0)
                    /\ \E w \in 1..Len(warnings) :
                          /\ warnings[w].series = name
                          /\ warnings[w].p1_type = PairsOf(name)[i][1]
                          /\ warnings[w].p2_type = PairsOf(name)[i][2]

RatioLabels ==
    {"bpr_win_rate", "draw_both_high_pct", "draw_both_stuck_pct", "draw_similar_pct",
     "draw_asymmetric_pct", "resolution_pct"}

\* C5: every ratio the report prints is a number, and it is 0 when its
\* denominator is 0: the pooled win rate when the summed decisive games are 0,
\* the draw sub-count percentages when the row has no draws.
C5_RatiosGuarded ==
    /\ \A i \in 1..Len(out) : out[i][1] \in RatioLabels => out[i][2] # NaN
    /\ \A v \in Printed("bpr_win_rate") :
          SumSeq(Column(bpr_all, "decisive_games")) = 0 => v = 0
    /\ \A v \in Printed("draw_both_high_pct") \cup Printed("draw_asymmetric_pct") :
          (Len(bb_neither) > 0 /\ bb_neither[1].draws = 0) => v = 0

\* The closed form 1.96 * sqrt(p * (1 - p) / n) * 100 with p = rate / 100, in
\* hundredths of a percent: e is the value of the formula for the root s of
\* p * (1 - p) / n.
IsHalfWidth(e, rate, n) ==
    LET q == (rate * (1000 - rate) * 100) \div n
    IN  \E s \in 0..5000 :
            /\ s * s <= q
            /\ (s + 1) * (s + 1) > q
            /\ e = (196 * s) \div 100

ErrorBarAsClaimed(e, rate, n) ==
    /\ e >= 0
    /\ n = 0 => e = 0
    /\ n > 0 => IsHalfWidth(e, rate, n)
    /\ (rate = 0 \/ rate = 1000) => e = 0

\* C6: for every row that is present, the error bar of each side is 0 when
\* decisive_games = 0 and otherwise 1.96 * sqrt(p * (1 - p) / decisive_games) * 100
\* with p that side's win rate / 100; it is 0 at 0% and 100%, and never negative.
C6_ErrorBars ==
    p1_errors # <<>> =>
        \A i \in 1..Len(pairing_configs) :
            LET row == NeitherRow(pairing_configs[i]) IN
            Len(row) > 0 =>
                /\ ErrorBarAsClaimed(p1_errors[i], row[1].p1_win_rate_decisive,
                                     row[1].decisive_games)
                /\ ErrorBarAsClaimed(p2_errors[i], row[1].p2_win_rate_decisive,
                                     row[1].decisive_games)

\* C6 witness: Figure 1 holds a row with decisive games and a positive error bar
\* (75% of 4 games) and a row without decisive games whose error bar is 0.
C6_Witness ==
    /\ p1_errors # <<>>
    /\ \E i, j \in 1..Len(pairing_configs) :
          /\ Len(NeitherRow(pairing_configs[i])) > 0
          /\ NeitherRow(pairing_configs[i])[1].decisive_games = 4
          /\ NeitherRow(pairing_configs[i])[1].p1_win_rate_decisive = 750
          /\ p1_errors[i] > 0
          /\ Len(NeitherRow(pairing_configs[j])) > 0
          /\ NeitherRow(pairing_configs[j])[1].decisive_games = 0
          /\ p1_errors[j] = 0

\* The pooled statement of one pair: the printed win rate and p-value against
\* the sums of p1_wins and p2_wins over all configurations of the pair.
PooledAsClaimed(rows, rate_label, p_label) ==
    LET wins == SumSeq(Column(rows, "p1_wins"))
        losses == SumSeq(Column(rows, "p2_wins"))
    IN  /\ \A v \in Printed(rate_label) :
              wins + losses > 0 => v = (1000 * wins) \div (wins + losses)
        /\ \A v \in Printed(p_label) :
              v = IF wins + losses > 0 THEN Binomtest(wins, wins + losses)
                  ELSE PScale

\* C7: for bayesian vs pure_random and for greedy vs pure_random, the win rate
\* the report states is 100 * sum(p1_wins) / (sum(p1_wins) + sum(p2_wins)) over
\* all configurations, and the pooled p-value is the one-sided binomial test on
\* those sums (1.0 when the summed decisive count is 0).
C7_PooledWinRate ==
    /\ PooledAsClaimed(bpr_all, "bpr_win_rate", "bpr_p_value")
    /\ PooledAsClaimed(gpr_all, "gpr_win_rate", "gpr_p_value")

\* C8: the bucket text follows the thresholds in order: p < 0.001 gives
\* 'p < 0.001', 0.001 <= p < 0.01 gives 'p < 0.01', 0.01 <= p < 0.05 gives
\* 'p < 0.05', p >= 0.05 (0.05 included) gives the value to 3 decimals; 100 wins
\* of 100 give 'p < 0.001' and 55 wins of 100 give the exact-value form.
C8_SigTextBuckets ==
    chosen_text # <<>> =>
        LET p == given_p[1]
            text == chosen_text[1].text
            value == chosen_text[1].value
        IN  /\ text \in {"p < 0.001", "p < 0.01", "p < 0.05", "p = "}
            /\ text = "p < 0.001" <=> p < 1000000
            /\ text = "p < 0.01" <=> (1000000 <= p /\ p < 10000000)
            /\ text = "p < 0.05" <=> (10000000 <= p /\ p < 50000000)
            /\ text = "p = " <=> p >= 50000000
            /\ text = "p = " =>
                  (1000000 * value - 500000 <= p /\ p < 1000000 * value + 500000)
            /\ (decisive = 100 /\ calls[Len(calls)].k = 100) => text = "p < 0.001"
            /\ (decisive = 100 /\ calls[Len(calls)].k = 55) => (text = "p = " /\ value = 184)

\* C8 witness: a p-value of exactly 0.05 was given the exact-value form '0.050'.
C8_Witness ==
    /\ chosen_text # <<>>
    /\ given_p = <<50000000>>
    /\ chosen_text[1] = [text |-> "p = ", value |-> 50]

\* C9: for a fixed n >= 1 the p-value does not increase with the number of
\* wins: of two calls with w1 <= w2, the first returns at least the second.
C9_PValueMonotone ==
    \A i, j \in 1..Len(calls) :
        calls[i].k <= calls[j].k => calls[i].pvalue >= calls[j].pvalue

\* C9 witness: two calls for the same n with more wins in the second and a
\* smaller p-value.
C9_Witness ==
    /\ Len(calls) = 2
    /\ decisive = MaxSample
    /\ calls[1].k < calls[2].k
    /\ calls[1].pvalue > calls[2].pvalue

\* C10: the statistics of bayesian vs greedy are computed over every row of the
\* pair, so the N of "Across all N nervousness configurations" is the number of
\* win rates that entered the range.
C10_CountMatchesWinRates ==
    \A n \in Printed("bg_paper_configurations") :
        /\ n = Len(win_rates)
        /\ Len(win_rates) = Len(bg_all)

\* The number of collected win rates that satisfy a condition.
CountWinRates(lo, hi) ==
    Cardinality({i \in 1..Len(win_rates) : lo <= win_rates[i] /\ win_rates[i] <= hi})

\* C11: every collected win rate falls in exactly one of the buckets below 52,
\* 52 to 68 inclusive, above 68 (52 and 68 are in the middle bucket), so the
\* three bucket counts sum to the number of collected win rates.
C11_BucketsPartition ==
    clustered_52_68 # <<>> =>
        /\ Len(below_52[1]) = CountWinRates(0, 519)
        /\ Len(clustered_52_68[1]) = CountWinRates(520, 680)
        /\ Len(above_68[1]) = CountWinRates(681, 1000)
        /\ Len(below_52[1]) + Len(clustered_52_68[1]) + Len(above_68[1]) = Len(win_rates)

\* C11 witness: win rates of exactly 52.0 and 68.0 were collected and both are
\* in the middle bucket.
C11_Witness ==
    /\ clustered_52_68 # <<>>
    /\ \E i, j \in 1..Len(win_rates) : win_rates[i] = 520 /\ win_rates[j] = 680
    /\ Len(clustered_52_68[1]) = 2

\* Section 4.3.3 has finished.
ReshuffleSectionDone == pc \in {"s5", "abstract", "done"}

\* C12: for the bayesian vs greedy 'neither' row the report states a resolution
\* rate of 100 * wins_after_reshuffle / games_reshuffled and a drew-again rate
\* of 100 minus it; with games_reshuffled = 0 it states a resolution rate of 0%.
C12_ResolutionRate ==
    (ReshuffleSectionDone /\ Len(bg_neither) > 0) =>
        LET row == bg_neither[1]
            rate == IF row.games_reshuffled = 0 THEN 0
                    ELSE (1000 * row.wins_after_reshuffle) \div row.games_reshuffled
        IN  /\ Printed("resolution_pct") = {rate}
            /\ Printed("draw_again_pct") = {1000 - rate}

\* C13: for the bayesian vs bayesian 'neither' row, each draw-characteristic
\* percentage the report prints (both-high, both-stuck, similar, asymmetric)
\* lies in [0, 100].
C13_DrawPercentagesInRange ==
    \A label \in {"draw_both_high_pct", "draw_both_stuck_pct", "draw_similar_pct",
                  "draw_asymmetric_pct"} :
        \A v \in Printed(label) : 0 <= v /\ v <= 1000

\* A progress field after a conversion decided by that field's own maximum.
ConvertedByOwnMaximum(field) ==
    LET values == Column(draws_csv, field)
    IN  IF Le(ColumnMax(values), 1000)
        THEN [i \in 1..Len(values) |-> Times(values[i], 100)]
        ELSE values

\* C14: after load_data, each of player_progress and opponent_progress has been
\* multiplied by 100 exactly when that field's own maximum is <= 1.0, and is
\* unchanged otherwise, whatever the values of the other field.
C14_ConversionPerField ==
    viz_pc \notin {"idle", "load_data"} =>
        \A field \in {"player_progress", "opponent_progress"} :
            Column(draws_df, field) = ConvertedByOwnMaximum(field)

\* The input main() needs is absent: no directory to default to, or no file at
\* the path it resolved.
InputAbsent ==
    \/ argv = <<>> /\ result_dirs = {}
    \/ csv_path # <<>> /\ csv_path[1] \notin files

\* C15: whenever the required input is absent (no comparison_results_*
\* directory when no argument is given, or no file at the resolved path), main()
\* never reaches load_data: it exits with status 1 after a diagnostic naming
\* what is missing -- the CSV path, or the comparison_results directories --
\* and it exits for no other reason.
C15_AbsentInputExits ==
    /\ InputAbsent => entry_pc \notin {"load", "loaded"}
    /\ entry_pc = "exited" =>
          /\ InputAbsent
          /\ exit_status = <<1>>
          /\ Len(diagnostic) = 1
          /\ diagnostic[1].names =
                IF csv_path = <<>> THEN "comparison_results" ELSE csv_path[1]

\* C15 witness: a run that resolved the path of the last directory, found no
\* file there, and exited with status 1 naming that path.
C15_Witness ==
    /\ entry_pc = "exited"
    /\ argv = <<>>
    /\ csv_path # <<>>
    /\ csv_path[1] \notin files
    /\ exit_status = <<1>>
    /\ diagnostic[1].names = csv_path[1]

\* C16: with no argument and several comparison_results_* directories, the
\* table is read from the most recently modified one, whatever the names and
\* modification times of the directories.
C16_MostRecentDirectory ==
    (entry_pc = "loaded" /\ argv = <<>> /\ Cardinality(result_dirs) >= 2) =>
        csv_path = <<DetailsCsv(LastModified(result_dirs).name)>>

\* C17: after load_data returns, no later step of the run (the five plot
\* functions and generate_summary_stats) changes the loaded table: its columns
\* and every cell value stay as they were immediately after load.
C17_TableNotMutated ==
    viz_pc \notin {"idle", "load_data"} => draws_df = load_data(draws_csv)

\* The five chart files of plots.py.
ChartFiles ==
    {"fig_winrates.pdf", "fig_drawanalysis.pdf", "fig_nervousness.pdf",
     "fig_progress_histogram.pdf", "fig_reshuffle.pdf"}

\* C19: whenever plots.py has run through its final 'ALL FIGURES GENERATED
\* SUCCESSFULLY' step, each of the five chart files was written during the run,
\* whichever rows the table contains, and the final listing names only files
\* that were written.
C19_AllChartsWritten ==
    chart_pc = "done" => (ChartFiles \subseteq saved /\ listed \subseteq saved)

\* C20: the row printed in the 'Highest win rate config' block is a bayesian vs
\* greedy row whose own p1_win_rate_decisive equals the printed maximum win
\* rate, also when some bayesian vs greedy row has decisive_games = 0.
C20_HighestWinRateRow ==
    max_row # <<>> =>
        /\ max_row[1].player1_type = "bayesian"
        /\ max_row[1].player2_type = "greedy"
        /\ max_row[1].p1_win_rate_decisive = MaxSeq(win_rates)

ReshuffleCountsOrdered(r) ==
    /\ 0 <= r.wins_after_reshuffle
    /\ r.wins_after_reshuffle <= r.games_reshuffled
    /\ r.games_reshuffled <= r.total_games
    /\ r.p1_wins + r.p2_wins = r.decisive_games
    /\ r.decisive_games + r.draws = r.total_games

\* C21: in the reshuffle chart, for every pairing whose row is present and has
\* ordered reshuffle counts, each of the three stacked segments (never
\* reshuffled, won after reshuffle, drew) lies in [0,100] and the three together
\* never exceed 100.
C21_SegmentsWithin100 ==
    chart_pc \in {"final", "done"} =>
        \A i \in 1..Len(all_pairing_configs) :
            LET row == NeitherRow(all_pairing_configs[i])
            IN  (Len(row) > 0 /\ ReshuffleCountsOrdered(row[1])) =>
                    /\ won_before_reshuffle[i] \in 0..1000
                    /\ won_after_reshuffle[i] \in 0..1000
                    /\ drew_after_reshuffle[i] \in 0..1000
                    /\ won_before_reshuffle[i] + won_after_reshuffle[i]
                          + drew_after_reshuffle[i] <= 1000

\* The steps of plots.py that follow Figure 1, Figure 2 and Figure S3.
AfterFigure1 == {"fig2", "figS1", "figS2", "figS3", "final", "done"}
AfterFigure2 == {"figS1", "figS2", "figS3", "final", "done"}
AfterFigureS3 == {"final", "done"}

\* A series has one entry per pairing of the list, and the entry of a pairing
\* that has a row stands at the position of the pairing in the list.
OnePerPairing(series, pairs, field) ==
    /\ DOMAIN series = 1..Len(pairs)
    /\ \A i \in 1..Len(pairs) :
          Len(NeitherRow(pairs[i])) > 0 => series[i] = NeitherRow(pairs[i])[1][field]

\* C22: whatever rows the table holds, the four win-rate series have 7
\* entries, and draw_rates, overlap_rates and the three reshuffle series have 9
\* entries, one per configured pairing in the order of the pairing list.
C22_OneEntryPerPairing ==
    /\ chart_pc \in AfterFigure1 =>
          /\ Len(pairing_configs) = 7
          /\ OnePerPairing(p1_wins, pairing_configs, "p1_win_rate_decisive")
          /\ OnePerPairing(p2_wins, pairing_configs, "p2_win_rate_decisive")
          /\ Len(p1_errors) = 7
          /\ Len(p2_errors) = 7
    /\ chart_pc \in AfterFigure2 =>
          /\ Len(all_pairing_configs) = 9
          /\ OnePerPairing(panel_draw_rates, all_pairing_configs, "draw_pct")
          /\ OnePerPairing(overlap_rates, all_pairing_configs, "draw_pattern_overlap_pct")
    /\ chart_pc \in AfterFigureS3 =>
          /\ Len(won_before_reshuffle) = 9
          /\ Len(won_after_reshuffle) = 9
          /\ OnePerPairing(drew_after_reshuffle, all_pairing_configs, "draw_pct")

\* C22 witness: the run ended on a table that holds greedy vs greedy only: its
\* win rate stands fifth of 7 and its draw rate third of 9, every other entry
\* is the 0 of a missing pairing.
C22_Witness ==
    /\ chart_pc = "done"
    /\ Len(chart_neither) = 1
    /\ Len(NeitherRow(<<"greedy", "greedy">>)) = 1
    /\ Len(p1_wins) = 7 /\ p1_wins[5] > 0 /\ p1_wins[1] = 0
    /\ Len(panel_draw_rates) = 9 /\ panel_draw_rates[3] > 0 /\ panel_draw_rates[9] = 0
    /\ Len(drew_after_reshuffle) = 9 /\ drew_after_reshuffle[3] > 0

\* C25: when the required input table is missing, a chart entry point fails
\* before it creates any output directory or writes any output file.  For
\* plots.py: in a run whose res/player_comparison_results.csv does not exist, no
\* step creates ./plots or saves a file.
C25_NoOutputWhenInputMissing ==
    [][(chart_pc # "idle" /\ ~csv_exists) => (plots_dir' = plots_dir /\ saved' = saved)]_vars

\* The quadrants of the summary whose condition row i of the table satisfies.
QuadrantsOf(i) ==
    LET player == draws_df[i].player_progress
        opponent == draws_df[i].opponent_progress
    IN  {q \in {"both_high", "both_stuck", "p1_ahead", "p2_ahead"} :
            \/ q = "both_high" /\ player >= 70000 /\ opponent >= 70000
            \/ q = "both_stuck" /\ player < 70000 /\ opponent < 70000
            \/ q = "p1_ahead" /\ player >= 70000 /\ opponent < 70000
            \/ q = "p2_ahead" /\ player < 70000 /\ opponent >= 70000}

RowsIn(q) == {i \in 1..Len(draws_df) : q \in QuadrantsOf(i)}

\* C23: for a draw-detail table whose progress values are numbers, the four
\* quadrant counts of generate_summary_stats partition the rows: every row is
\* counted in exactly one quadrant, each count is the number of rows of its
\* quadrant, and the four counts sum to the number of rows.
C23_QuadrantsPartition ==
    (viz_pc = "done" /\ ~HasNaN(draws_df)) =>
        /\ \A i \in 1..Len(draws_df) : Cardinality(QuadrantsOf(i)) = 1
        /\ \A q \in {"both_high", "both_stuck", "p1_ahead", "p2_ahead"} :
              summary[1][q] = Cardinality(RowsIn(q))
        /\ summary[1].both_high + summary[1].both_stuck
              + summary[1].p1_ahead + summary[1].p2_ahead = Len(draws_df)
        /\ summary[1].total = Len(draws_df)

\* C23 witness: a summary of two rows on the 70 boundary, (70.0, 70.0) counted
\* as both high and (69.9, 70.0) as P2 ahead.
C23_Witness ==
    /\ viz_pc = "done"
    /\ ~HasNaN(draws_df)
    /\ Len(draws_df) = 2
    /\ draws_df[1].player_progress = 70000 /\ draws_df[1].opponent_progress = 70000
    /\ draws_df[2].player_progress = 69900 /\ draws_df[2].opponent_progress = 70000
    /\ summary[1].both_high = 1
    /\ summary[1].p2_ahead = 1
    /\ summary[1].both_stuck = 0
    /\ summary[1].p1_ahead = 0

\* The number of rows that plot_symmetric_analysis gave one of the labels.
LabelCount(labels) ==
    Cardinality({i \in LabelledRows : draws_df[i].draw_type \in labels})

====
